---- MODULE Spec2Model ----
(***************************************************************************)
(* The forecast engine of radar_app: FluidDynamicsForecaster               *)
(* (src/src/uploaders/s3_uploader.py), its data classes and exceptions     *)
(* (src/src/models.py) and its configuration (src/src/config.py), the     *)
(* worker cycle that drives it (src/src/main.py) and the downloader that   *)
(* feeds it (DMIDownloader, src/src/processors/radar_processor.py).        *)
(*                                                                         *)
(* Numbers.  numpy float32 values are modelled in fixed point: a field or  *)
(* velocity value x is the integer x * FScale, and every product rounds to *)
(* the nearest unit.  uint8 grids hold plain integers 0..255.  Arrays are  *)
(* heap objects (a reference is an index of `heap`), so that copying,      *)
(* in-place update and aliasing are what the Python code makes them.       *)
(***************************************************************************)
EXTENDS Integers, Sequences, FiniteSets, TLC

VARIABLES
    entry,          \* the method the caller invokes
    cfg,            \* self.config: forecast_steps, forecast_interval_minutes
    frames,         \* the caller's list of RadarFrame objects
    heap,           \* every numpy array alive, by reference
    input0,         \* the caller's list and arrays as they were at the call
    args,           \* the arguments of a direct call of one component
    pc,             \* position of the call
    lo,             \* recent_frames = frames[lo..Len(frames)]
    pair,           \* loop index i of calculate_average_velocity (0-based)
    sum,            \* u_sum, v_sum (NoVelocity while they are None)
    valid_pairs,    \* valid_pairs
    avg,            \* u_avg, v_avg
    current_field,  \* reference of current_field
    current_time,   \* current_time
    step,           \* loop variable of generate_forecast
    forecasts,      \* the list being built by generate_forecast
    result,         \* what the caller receives on return
    exc,            \* the exception the caller receives: kinds, outermost first
    origin,         \* the kind of the first exception raised in the call
    calls,          \* how often each component has been invoked
    tracked,        \* what each call of calculate_optical_flow came to, in the
                    \* order of the calls: the frames it was given, what it
                    \* raised, what the tracker found
    uv,             \* u, v of calculate_optical_flow before they are smoothed
    other,          \* the locals of a second call of generate_forecast, while
                    \* the first one is running
    worker,         \* RadarWorker.run and process_cycle (src/src/main.py)
    folder,         \* the files of config.h5_folder: absent, partly written or
                    \* written completely
    download        \* DMIDownloader.download_hdf5_files: its position and locals

vars == << entry, cfg, frames, heap, input0, args, pc, lo, pair, sum, valid_pairs,
           avg, current_field, current_time, step, forecasts, result, exc,
           origin, calls, tracked, uv, other, worker, folder, download >>

----------------------------------------------------------------------------
(* Bounds of the model *)

MaxFrames == 4
MaxSteps == 7
MaxInstant == 3000
FScale == 100
EScale == 10000
MaxEvolutionErrors == 1
MaxCycles == 2

(* Program constants *)

MinForecastFrames == 3
MinVelocityFrames == 2
WindowSize == 10
Stride == 10
GrowthLow == 80
GrowthHigh == 150
DecayAbove == 180
MaxIntensity == 255
ConfidenceFloor == 10
ConfidenceSlope == 15
SubCell == 32

----------------------------------------------------------------------------
(* Arithmetic *)

Min(a, b) == IF a < b THEN a ELSE b

Max(a, b) == IF a > b THEN a ELSE b

\* a / b rounded to the nearest integer (b > 0)
RoundDiv(a, b) ==
    IF a >= 0 THEN (2 * a + b) \div (2 * b) ELSE -((2 * (-a) + b) \div (2 * b))

Last(q) == q[Len(q)]

\* np.clip(x, lo, hi) on one element
Clip(x, low, high) == IF x < low THEN low ELSE IF x > high THEN high ELSE x

\* Python's divmod(i, d); d = 0 raises ZeroDivisionError and is guarded by callers
DivMod(i, d) == << i \div d, i % d >>

----------------------------------------------------------------------------
(* numpy arrays: dtype, shape (rows, cols) and cells indexed [y, x] from 0 *)

\* a function with every value computed (TLC keeps [x \in S |-> e] unevaluated)
Strict(f) == f @@ <<>>

Cells(rows, cols) == (0 .. rows - 1) \X (0 .. cols - 1)

Array(dtype, shape, f(_, _)) ==
    [dtype |-> dtype, shape |-> shape,
     cells |-> Strict([c \in Cells(shape[1], shape[2]) |-> f(c[1], c[2])])]

Rows(a) == a.shape[1]

Cols(a) == a.shape[2]

\* None in the place of an array, and in the place of (u, v)
NoArray == [dtype |-> "none", shape |-> << 0, 0 >>, cells |-> <<>>]

NoVelocity == [u |-> NoArray, v |-> NoArray]

IsNone(vel) == vel.u.dtype = "none"

\* x.astype(np.float32) of one element (integer dtypes hold plain integers)
ToFloat32(dtype, x) == IF dtype = "float32" THEN x ELSE x * FScale

\* x.astype(np.int8): the signed type, -128..127, in the place of uint8
ToUint8_signed(x) ==
    (((IF x >= 0 THEN x \div FScale ELSE -((-x) \div FScale)) + 128) % 256) - 128

\* x.astype(np.uint8) of one float32 element: truncation, modulo 2^8
ToUint8(x) ==
    (IF x >= 0 THEN x \div FScale ELSE -((-x) \div FScale)) % (MaxIntensity + 1)

\* a.astype(np.float32): a new array
AsFloat32(a) ==
    [dtype |-> "float32", shape |-> a.shape,
     cells |-> Strict([c \in DOMAIN a.cells |-> ToFloat32(a.dtype, a.cells[c])])]

\* a.astype(np.uint8) of a float32 array: a new array
AsUint8(a) ==
    [dtype |-> "uint8", shape |-> a.shape,
     cells |-> Strict([c \in DOMAIN a.cells |-> ToUint8(a.cells[c])])]

----------------------------------------------------------------------------
(* Motion Estimator: calculate_optical_flow *)

\* the anchor points handed to the tracker, in the order of the comprehension
\* [[x, y] for y in range(0, rows, 10) for x in range(0, cols, 10)]
AnchorsPerRow(cols) == (cols + Stride - 1) \div Stride

AnchorCount(rows, cols) == ((rows + Stride - 1) \div Stride) * AnchorsPerRow(cols)

\* anchor i as <<x, y>>
AnchorAt(i, cols) ==
    << (i % AnchorsPerRow(cols)) * Stride, (i \div AnchorsPerRow(cols)) * Stride >>

\* the number of anchors in a row, in the place of cols // 10
AnchorDivisor_ceil(cols) == (cols + Stride - 1) \div Stride

\* frame1.shape[1] // 10, the divisor of divmod
AnchorDivisor(cols) == cols \div Stride

\* the cell <<orig_y, orig_x>> the code recovers from the list position i
RecoveredCell(i, cols) ==
    LET qr == DivMod(i, AnchorDivisor(cols))
    IN  << qr[1] * Stride, qr[2] * Stride >>

\* the positions whose recovered cell is (y, x); the loop writes them in order,
\* so the last one stays
WritersOf(y, x, rows, cols) ==
    { i \in 0 .. AnchorCount(rows, cols) - 1 : RecoveredCell(i, cols) = << y, x >> }

LastOf(S) == CHOOSE i \in S : \A j \in S : j <= i

\* u and v before smoothing, for a tracker that moved every anchor by d = <<dx, dy>>
\* cells: u[orig_y, orig_x] = x - orig_x, v[orig_y, orig_x] = y - orig_y
SparseU(shape, d) ==
    Array("float32", shape,
          LAMBDA y, x :
            LET W == WritersOf(y, x, shape[1], shape[2])
            IN  IF W = {} THEN 0
                ELSE (AnchorAt(LastOf(W), shape[2])[1] + d[1] - x) * FScale)

SparseV(shape, d) ==
    Array("float32", shape,
          LAMBDA y, x :
            LET W == WritersOf(y, x, shape[1], shape[2])
            IN  IF W = {} THEN 0
                ELSE (AnchorAt(LastOf(W), shape[2])[2] + d[2] - y) * FScale)

\* scipy.ndimage.gaussian_filter(a, sigma=2.0): the normalised kernel
\* exp(-k^2 / 8), k = -8..8, in units of 1/KScale; GaussWeights[k + 1] is tap |k|
GaussWeights == << 19948, 17603, 12098, 6476, 2700, 876, 222, 44, 7 >>

KScale == 100000

\* mode='reflect': (d c b a | a b c d | d c b a)
Reflect(i, n) ==
    LET j == i % (2 * n) IN IF j >= n THEN 2 * n - 1 - j ELSE j

\* correlate1d along axis 0 (axis = 0) or axis 1 (axis = 1): the 17 taps
Correlate1d(a, axis) ==
    [a EXCEPT !.cells = Strict(
        [c \in DOMAIN a.cells |->
            LET at(k) == IF axis = 0
                         THEN a.cells[<< Reflect(c[1] + k, Rows(a)), c[2] >>]
                         ELSE a.cells[<< c[1], Reflect(c[2] + k, Cols(a)) >>]
            IN  RoundDiv(  GaussWeights[1] * at(0)
                         + GaussWeights[2] * (at(-1) + at(1))
                         + GaussWeights[3] * (at(-2) + at(2))
                         + GaussWeights[4] * (at(-3) + at(3))
                         + GaussWeights[5] * (at(-4) + at(4))
                         + GaussWeights[6] * (at(-5) + at(5))
                         + GaussWeights[7] * (at(-6) + at(6))
                         + GaussWeights[8] * (at(-7) + at(7))
                         + GaussWeights[9] * (at(-8) + at(8)),
                         KScale)])]

gaussian_filter(a) ==
    LET along_rows == Correlate1d(a, 0) IN Correlate1d(along_rows, 1)

\* does the call raise? track is what cv2.calcOpticalFlowPyrLK does: it fails
\* (cv2.error) or finds the displacement track.d; frames of different sizes
\* are rejected by the tracker, and cols // 10 = 0 makes divmod raise
OpticalFlowError(f1, f2, track) ==
    IF track.fails \/ f1.shape # f2.shape THEN "cv2.error"
    ELSE IF AnchorDivisor(Cols(f1)) = 0 THEN "ZeroDivisionError"
    ELSE "none"

\* the (u, v) returned when the call does not raise
calculate_optical_flow(f1, f2, track) ==
    LET u == SparseU(f1.shape, track.d)
        v == SparseV(f1.shape, track.d)
    IN  [u |-> gaussian_filter(u), v |-> gaussian_filter(v)]

----------------------------------------------------------------------------
(* Advector: advect_field *)

\* numpy broadcasting of two 2-D shapes
Broadcastable(s1, s2) ==
    \A k \in 1 .. 2 : s1[k] = s2[k] \/ s1[k] = 1 \/ s2[k] = 1

BroadcastShape(s1, s2) == << Max(s1[1], s2[1]), Max(s1[2], s2[2]) >>

\* element [y, x] of a after broadcasting to a larger shape
BroadcastAt(a, y, x) ==
    a.cells[<< IF Rows(a) = 1 THEN 0 ELSE y, IF Cols(a) = 1 THEN 0 ELSE x >>]

\* does the call raise? remap_fails is what cv2.remap does
AdvectError(field, vel, dt, remap_fails) ==
    IF ~Broadcastable(field.shape, vel.u.shape) THEN "ValueError"
    ELSE IF remap_fails THEN "cv2.error"
    ELSE "none"

\* the centre of the cell, half a cell further, in the place of its index
GridCoord_centre(k) == k * SubCell + SubCell \div 2

\* np.mgrid coordinate of a cell, in the units of the sampling table (1/SubCell)
GridCoord(k) == k * SubCell

\* the backward coordinate as it is, np.clip left out
BackCoord_unclipped(k, w, dt, extent) ==
    GridCoord(k) - RoundDiv(SubCell * w * dt, FScale)

\* forward trajectories, x_coords + u * dt, in the place of backward ones
BackCoord_forward(k, w, dt, extent) ==
    Clip(GridCoord(k) + RoundDiv(SubCell * w * dt, FScale), 0, SubCell * (extent - 1))

\* x_back = clip(x_coords - u * dt, 0, cols - 1), in units of 1/SubCell
BackCoord(k, w, dt, extent) ==
    Clip(GridCoord(k) - RoundDiv(SubCell * w * dt, FScale), 0, SubCell * (extent - 1))

\* `u *= dt`, the velocity arrays scaled in place
VelocityAfterAdvect_inplace(vel, dt) ==
    [u |-> [vel.u EXCEPT !.cells = Strict([c \in DOMAIN vel.u.cells |-> vel.u.cells[c] * dt])],
     v |-> [vel.v EXCEPT !.cells = Strict([c \in DOMAIN vel.v.cells |-> vel.v.cells[c] * dt])]]

\* the caller's u, v after `x_coords - u * dt`, `y_coords - v * dt`: the products
\* are new arrays, u and v are not written
VelocityAfterAdvect(vel, dt) == vel

\* a pixel of the source, BORDER_CONSTANT (0) outside it
Pixel(src, iy, ix) ==
    IF iy \in 0 .. Rows(src) - 1 /\ ix \in 0 .. Cols(src) - 1
    THEN src.cells[<< iy, ix >>] ELSE 0

\* cv2.remap(..., INTER_LINEAR) at (X, Y), both in units of 1/SubCell
Bilinear(src, X, Y) ==
    LET ix == X \div SubCell
        fx == X % SubCell
        iy == Y \div SubCell
        fy == Y % SubCell
    IN  RoundDiv(  (SubCell - fx) * (SubCell - fy) * Pixel(src, iy, ix)
                 + fx * (SubCell - fy) * Pixel(src, iy, ix + 1)
                 + (SubCell - fx) * fy * Pixel(src, iy + 1, ix)
                 + fx * fy * Pixel(src, iy + 1, ix + 1),
                 SubCell * SubCell)

\* the array returned when the call does not raise
advect_field(field, vel, dt) ==
    LET src == AsFloat32(field)
    IN  Array("float32", BroadcastShape(field.shape, vel.u.shape),
              LAMBDA y, x :
                Bilinear(src,
                         BackCoord(x, BroadcastAt(vel.u, y, x), dt, Cols(field)),
                         BackCoord(y, BroadcastAt(vel.v, y, x), dt, Rows(field))))

----------------------------------------------------------------------------
(* Evolution Model: apply_precipitation_decay, apply_growth_decay_model *)

\* np.exp(-0.1 * dt / 3600) in units of 1/EScale, by its power series
ExpTerms == 14

DecayFactor(dt) ==
    LET T[k \in 0 .. ExpTerms] ==
            IF k = 0 THEN EScale ELSE RoundDiv(T[k - 1] * (-dt), 36000 * k)
        S[k \in 0 .. ExpTerms] == IF k = 0 THEN T[0] ELSE S[k - 1] + T[k]
    IN  S[ExpTerms]

\* apply to every element of an array (a new array)
MapCells(a, f(_)) ==
    [a EXCEPT !.cells = Strict([c \in DOMAIN a.cells |-> f(a.cells[c])])]

\* field * decay_factor
apply_precipitation_decay(field, dt) ==
    LET decay_factor == DecayFactor(dt)
    IN  MapCells(field, LAMBDA x : RoundDiv(x * decay_factor, EScale))

\* growth_mask = (field > 80) & (field < 150)
GrowthMask(x) == x > GrowthLow * FScale /\ x < GrowthHigh * FScale

\* decay_mask = field > 180
DecayMask(x) == x > DecayAbove * FScale

\* x * (1.0 + 0.05 * dt / 3600.0)
Grow(x, dt) == x + RoundDiv(x * dt, 72000)

\* x * (1.0 - 0.15 * dt / 3600.0)
Decay(x, dt) == x - RoundDiv(x * dt, 24000)

\* np.clip(result, 0, 255)
ClipIntensity(a) == MapCells(a, LAMBDA x : Clip(x, 0, MaxIntensity * FScale))

\* decay_mask taken from result after the growth, `result > 180`
apply_growth_decay_model_sequential(field, dt) ==
    LET grown == [field EXCEPT !.cells = Strict(
                    [c \in DOMAIN field.cells |->
                        IF GrowthMask(field.cells[c]) THEN Grow(field.cells[c], dt)
                        ELSE field.cells[c]])]
        decayed == [grown EXCEPT !.cells = Strict(
                    [c \in DOMAIN grown.cells |->
                        IF DecayMask(grown.cells[c]) THEN Decay(grown.cells[c], dt)
                        ELSE grown.cells[c]])]
    IN  ClipIntensity(apply_precipitation_decay(decayed, dt))

\* the new array returned when nothing raises; both masks are taken from the
\* field as passed, the products act on result
apply_growth_decay_model(field, dt) ==
    LET grown == [field EXCEPT !.cells = Strict(
                    [c \in DOMAIN field.cells |->
                        IF GrowthMask(field.cells[c]) THEN Grow(field.cells[c], dt)
                        ELSE field.cells[c]])]
        decayed == [grown EXCEPT !.cells = Strict(
                    [c \in DOMAIN grown.cells |->
                        IF DecayMask(field.cells[c]) THEN Decay(grown.cells[c], dt)
                        ELSE grown.cells[c]])]
    IN  ClipIntensity(apply_precipitation_decay(decayed, dt))

\* does the body of the try block raise? `result[mask] *= <float>` cannot
\* store its float64 product into an integer array (numpy's UFuncTypeError, for
\* any mask); fault is what the allocations of numpy do (MemoryError)
EvolveError(field, dt, fault) ==
    IF field.dtype # "float32" THEN "UFuncTypeError"
    ELSE IF fault THEN "MemoryError"
    ELSE "none"

\* `except ValueError` in the place of `except Exception`
EvolutionCatches_value(kind) == kind = "ValueError"

\* `except Exception` in apply_growth_decay_model: which kinds the handler takes
EvolutionCatches(kind) == TRUE

----------------------------------------------------------------------------
(* Exceptions (src/src/models.py): a raised exception is the sequence of the  *)
(* kinds on its chain, the exception itself first, then the exception that   *)
(* was being handled when it was raised (__context__), and so on.            *)

NoException == <<>>

\* raise Kind(...) outside any handler
Raise(kind) == << kind >>

\* raise Kind(f"...{e}") inside `except Exception as e`
RaiseInHandler(kind, e) == << kind >> \o e

\* `except ForecastError` in the place of `except Exception`
SequencerCatches_own(kind) == kind = "ForecastError"

\* `except Exception` in generate_forecast: which kinds the handler takes
SequencerCatches(kind) == TRUE

\* what leaves the try block of generate_forecast when e is raised inside it
AtSequencerBoundary(e) ==
    IF SequencerCatches(Head(e)) THEN RaiseInHandler("ForecastError", e) ELSE e

----------------------------------------------------------------------------
(* Sequencer helpers: generate_forecast *)

\* a floor of two frames, the Aggregator's, in the place of three
TooFewFrames_two(n) == n < MinVelocityFrames

\* if len(frames) < 3 (generate_forecast)
TooFewFrames(n) == n < MinForecastFrames

\* the builtin RuntimeError, in the place of ForecastError
EstimatorError_builtin == "RuntimeError"

\* raise ForecastError(f"Optical flow calculation failed: {e}")
EstimatorError == "ForecastError"

\* `except ForecastError` in the place of `except Exception`
AggregatorCatches_own(kind) == kind = "ForecastError"

\* `except Exception` in the loop of calculate_average_velocity
AggregatorCatches(kind) == TRUE

\* if len(frames) < 2 (calculate_average_velocity)
TooFewForVelocity(n) == n < MinVelocityFrames

\* the builtin ValueError for a bad argument, in the place of ForecastError
VelocityFramesError_builtin == Raise("ValueError")

\* raise ForecastError("Need at least 2 frames to calculate velocity")
VelocityFramesError == Raise("ForecastError")

\* the check of valid_pairs left out
NoValidPairs_unchecked(k) == FALSE

\* if valid_pairs == 0
NoValidPairs(k) == k = 0

\* raise ForecastError("No valid frame pairs for velocity calculation")
NoValidPairsError == Raise("ForecastError")

\* recent_frames = frames, the whole buffer
WindowStart_all(n) == 1

\* recent_frames = frames[-min(10, len(frames)):] as the first index kept (1-based)
WindowStart(n) == n - Min(WindowSize, n) + 1

\* every step advects the grid of the last frame, recent_frames[-1].data
StepInput_observation(current, last) == last

\* the field a step passes to advect_field: current_field, which the step
\* before assigned (last: the grid of the last frame of the buffer)
StepInput(current, last) == current

\* current_field = forecast_result.data: the loop goes on with the recorded grid
CarriedField_recorded(working, recorded) == recorded

\* current_field at the end of an iteration: what line 175 assigned; the
\* recorded grid, current_field.astype(np.uint8), is another array
CarriedField(working, recorded) == working

\* dt = self.config.forecast_interval_minutes * 60
StepSeconds(c) == c.forecast_interval_minutes * 60

\* the linear decay without its floor
Confidence_nofloor(k) == 100 - k * ConfidenceSlope

\* confidence = max(0.1, 1.0 - (step * 0.15)), in hundredths
Confidence(k) == Max(ConfidenceFloor, 100 - k * ConfidenceSlope)

\* current_time + timedelta(minutes=...): OverflowError past datetime.max
TimeOverflows(t, minutes) == t + minutes > MaxInstant

\* steps counted from 0, as range(steps) would
forecast_time_from0(t, k, c) == t + (k - 1) * c.forecast_interval_minutes

\* current_time + timedelta(minutes=step * self.config.forecast_interval_minutes)
forecast_time(t, k, c) == t + k * c.forecast_interval_minutes

\* ForecastResult(...).data = current_field.astype(np.uint8)
RecordedGrid(field) == AsUint8(field)

\* np.clip(frame, 0, 255, out=frame): the frame's own array is clipped
HeapAfterClip_inplace(h, ref) ==
    [h EXCEPT ![ref].cells =
        Strict([c \in DOMAIN h[ref].cells |->
                   IF h[ref].dtype = "float32"
                   THEN Clip(h[ref].cells[c], 0, MaxIntensity * FScale)
                   ELSE Clip(h[ref].cells[c], 0, MaxIntensity)])]

\* the memory after np.clip(frame, 0, 255).astype(np.uint8): the clipped copy
\* is a temporary of calculate_optical_flow, the frame's array is not written
HeapAfterClip(h, ref) == h

\* u_sum += u (elementwise, u broadcast to the shape of u_sum)
AddInto(total, a) ==
    [total EXCEPT !.cells = Strict(
        [c \in DOMAIN total.cells |-> total.cells[c] + BroadcastAt(a, c[1], c[2])])]

\* can `u_sum += u` be done? the result must have the shape of u_sum
AddableInto(target, s) == \A k \in 1 .. 2 : s[k] = target[k] \/ s[k] = 1

\* the mean over all the pairs of the window, the failed ones included
Divisor_all(valid, tried) == tried

\* the divisor of `u_sum / valid_pairs`; tried is the number of pairs looped over
Divisor(valid, tried) == valid

\* u_sum / valid_pairs
DivideBy(a, n) ==
    [a EXCEPT !.cells = Strict([c \in DOMAIN a.cells |-> RoundDiv(a.cells[c], n)])]

----------------------------------------------------------------------------
(* Inputs *)

Shapes == { << 1, 10 >>, << 2, 10 >> }

\* grids of fewer than ten columns
NarrowShapes == { << 1, 5 >>, << 2, 9 >> }

Patterns == { "cells", "raw" }

Palette == << 0, 60, 100, 160, 200, 255 >>

RawPalette == << 0, 300, 90, 255 >>

FinePalette == << 0, 8050, 14999, 18001, 25500, 12345 >>

WildPalette == << -500, 30000, 14999, 18001, 8000 >>

EdgePalette == << 8000, 15000, 18000, 8001, 18001, 14999 >>

PatternType(p) ==
    IF p = "cells" THEN "uint8" ELSE IF p = "raw" THEN "int16" ELSE "float32"

PatternArray(p, i, shape) ==
    Array(PatternType(p), shape,
          LAMBDA y, x :
            IF p = "cells" THEN Palette[((x + y + i) % Len(Palette)) + 1]
            ELSE IF p = "raw" THEN RawPalette[((x + y + i) % Len(RawPalette)) + 1]
            ELSE IF p = "fine" THEN FinePalette[((x + y + i) % Len(FinePalette)) + 1]
            ELSE IF p = "edge" THEN EdgePalette[((x + y + i) % Len(EdgePalette)) + 1]
            ELSE WildPalette[((x + y + i) % Len(WildPalette)) + 1])

\* self.config as generate_forecast finds it: the default, and other step
\* counts and intervals
Configs ==
    { [forecast_steps |-> 6, forecast_interval_minutes |-> 10],
      [forecast_steps |-> 0, forecast_interval_minutes |-> 10],
      [forecast_steps |-> MaxSteps, forecast_interval_minutes |-> 10],
      [forecast_steps |-> 1, forecast_interval_minutes |-> 300],
      [forecast_steps |-> 2, forecast_interval_minutes |-> 300] }

FramePeriod == 10

Displacements == { << 0, 0 >>, << 1, 1 >> }

Tracks == { [fails |-> TRUE, d |-> << 0, 0 >>] }
            \cup { [fails |-> FALSE, d |-> d] : d \in Displacements }

Speeds == { -1, 0, 1 }

AdvectDts == { -1, 0, 1, 600 }

\* a part of a cell per second added to the speed along the rows
Drifts == { 0, FScale \div 4 }

EvolveDts == { -600, 0, 600, 18000 }

EstimatorShapes == { << 1, 10 >>, << 2, 10 >>, << 11, 20 >>, << 1, 12 >>, << 11, 12 >>,
                     << 1, 5 >> }

Uniform(shape, w) == Array("float32", shape, LAMBDA y, x : w)

DefaultConfig == [forecast_steps |-> 6, forecast_interval_minutes |-> 10]

NoArgs == [field |-> 0, field2 |-> 0, vel |-> NoVelocity, dt |-> 0]

NoResult == [forecasts |-> <<>>, velocity |-> NoVelocity, array |-> 0]

BufferOf(n, p, shape, tLast) ==
    [i \in 1 .. n |->
        [timestamp |-> tLast - (n - i) * FramePeriod, data |-> i,
         file_path |-> i, processed |-> FALSE]]

\* the other of the two shapes
OtherShape(shape) == CHOOSE o \in Shapes : o # shape

\* the frames' grids; frame number odd (if any) has the other shape
BufferHeap(n, p, shape, odd) ==
    [i \in 1 .. n |-> PatternArray(p, i, IF i = odd THEN OtherShape(shape) ELSE shape)]

\* which frame of a buffer of n is the odd one: the first or the last
OddFrames(n) == { 1, n } \cap (1 .. n)

\* the buffers a call is given: frames of one shape, ending at an early
\* instant; frames of mixed shapes; frames ending shortly before MaxInstant
Buffers ==
    { [n |-> n, p |-> p, shape |-> shape, odd |-> 0, t |-> 100] :
        n \in 0 .. MaxFrames, p \in Patterns, shape \in Shapes \cup NarrowShapes }
    \cup UNION { { [n |-> n, p |-> "cells", shape |-> shape, odd |-> odd, t |-> 100] :
                     odd \in OddFrames(n), shape \in Shapes } : n \in 0 .. MaxFrames }
    \cup { [n |-> n, p |-> "cells", shape |-> << 1, 10 >>, odd |-> 0,
            t |-> MaxInstant - 25] : n \in 0 .. MaxFrames }

\* no second call, and no worker: a component is called on its own
NoCall == [pc |-> "none"]

NoWorker == [pc |-> "none"]

\* the instants (minutes of the day) the radar files of the model are from
Stamps == { 40, 50, 55, 60, 70 }

\* an empty h5 folder, and a downloader that is not called
NoFiles == [name \in Stamps |-> "absent"]

NoDownload == [pc |-> "idle"]

LocalsAt(position) ==
    /\ pc = position
    /\ lo = 1
    /\ pair = 0
    /\ sum = NoVelocity
    /\ valid_pairs = 0
    /\ avg = NoVelocity
    /\ current_field = 0
    /\ current_time = 0
    /\ step = 0
    /\ forecasts = <<>>
    /\ result = NoResult
    /\ exc = NoException
    /\ origin = "none"
    /\ calls = [aggregator |-> 0, estimator |-> 0, advector |-> 0, evolution |-> 0,
                evolution_errors |-> 0]
    /\ tracked = <<>>
    /\ uv = NoVelocity

Locals0 == LocalsAt("call")

InitForecast ==
    /\ entry = "generate_forecast"
    /\ \E b \in Buffers :
        /\ frames = BufferOf(b.n, b.p, b.shape, b.t)
        /\ heap = BufferHeap(b.n, b.p, b.shape, b.odd)
    /\ cfg \in Configs
    /\ args = NoArgs

InitAggregate ==
    /\ entry = "calculate_average_velocity"
    /\ \E b \in Buffers :
        /\ frames = BufferOf(b.n, b.p, b.shape, b.t)
        /\ heap = BufferHeap(b.n, b.p, b.shape, b.odd)
    /\ cfg = DefaultConfig
    /\ args = NoArgs

InitAdvect ==
    /\ entry = "advect_field"
    /\ frames = <<>>
    /\ cfg = DefaultConfig
    /\ \E p \in { "cells", "fine" }, shape \in Shapes, ku \in Speeds, kv \in Speeds,
          drift \in Drifts, dt \in AdvectDts :
        /\ heap = << PatternArray(p, 1, shape) >>
        /\ args = [field |-> 1, field2 |-> 0,
                   vel |-> [u |-> Uniform(shape, ku * FScale),
                            v |-> Uniform(shape, kv * FScale + drift)],
                   dt |-> dt]

InitEvolve ==
    /\ entry = "apply_growth_decay_model"
    /\ frames = <<>>
    /\ cfg = DefaultConfig
    /\ \E p \in { "cells", "raw", "fine", "wild", "edge" }, shape \in Shapes, i \in 1 .. 2,
          dt \in EvolveDts :
        /\ heap = << PatternArray(p, i, shape) >>
        /\ args = [field |-> 1, field2 |-> 0, vel |-> NoVelocity, dt |-> dt]

InitEstimate ==
    /\ entry = "calculate_optical_flow"
    /\ frames = <<>>
    /\ cfg = DefaultConfig
    /\ \E shape \in EstimatorShapes :
        heap = << PatternArray("cells", 1, shape), PatternArray("cells", 2, shape) >>
    /\ args = [field |-> 1, field2 |-> 2, vel |-> NoVelocity, dt |-> 0]

Init ==
    /\ InitForecast \/ InitAggregate \/ InitAdvect \/ InitEvolve \/ InitEstimate
    /\ input0 = [frames |-> frames, heap |-> heap]
    /\ Locals0
    /\ other = NoCall
    /\ worker = NoWorker
    /\ folder = NoFiles
    /\ download = NoDownload

----------------------------------------------------------------------------
(* The calls *)

WindowLen == Len(frames) - lo + 1

Count(what) == [calls EXCEPT ![what] = @ + 1]

\* generate_forecast, up to the call of calculate_average_velocity
EnterForecast ==
    /\ pc = "call"
    /\ entry = "generate_forecast"
    /\ IF TooFewFrames(Len(frames))
       THEN /\ pc' = "raised"
            /\ exc' = Raise("ForecastError")
            /\ origin' = "ForecastError"
            /\ UNCHANGED << lo, calls >>
       ELSE /\ lo' = WindowStart(Len(frames))
            /\ calls' = Count("aggregator")
            /\ IF TooFewForVelocity(Len(frames) - lo' + 1)
               THEN /\ pc' = "raised"
                    /\ exc' = AtSequencerBoundary(VelocityFramesError)
                    /\ origin' = "ForecastError"
               ELSE /\ pc' = "pairs"
                    /\ UNCHANGED << exc, origin >>
    /\ UNCHANGED << tracked, uv, other, worker >>
    /\ UNCHANGED << entry, cfg, frames, heap, input0, args, pair, sum, valid_pairs,
                    avg, current_field, current_time, step, forecasts, result >>
    /\ UNCHANGED << folder, download >>

\* calculate_average_velocity called by the user, up to its loop
EnterAggregate ==
    /\ pc = "call"
    /\ entry = "calculate_average_velocity"
    /\ calls' = Count("aggregator")
    /\ IF TooFewForVelocity(Len(frames))
       THEN /\ pc' = "raised"
            /\ exc' = VelocityFramesError
            /\ origin' = "ForecastError"
       ELSE /\ pc' = "pairs"
            /\ UNCHANGED << exc, origin >>
    /\ UNCHANGED << tracked, uv, other, worker >>
    /\ UNCHANGED << entry, cfg, frames, heap, input0, args, lo, pair, sum, valid_pairs,
                    avg, current_field, current_time, step, forecasts, result >>
    /\ UNCHANGED << folder, download >>

\* one iteration of the loop of calculate_average_velocity
EstimatePair ==
    /\ pc = "pairs"
    /\ pair < WindowLen - 1
    /\ \E track \in Tracks :
        LET r1 == frames[lo + pair].data
            r2 == frames[lo + pair + 1].data
            err == OpticalFlowError(heap[r1], heap[r2], track)
            flow == calculate_optical_flow(heap[r1], heap[r2], track)
            \* what the body of the try block raises, if anything
            raised == IF err # "none"
                      THEN RaiseInHandler(EstimatorError, Raise(err))
                      ELSE IF ~IsNone(sum) /\ ~AddableInto(sum.u.shape, flow.u.shape)
                      THEN Raise("ValueError")
                      ELSE NoException
        IN  /\ heap' = HeapAfterClip(HeapAfterClip(heap, r1), r2)
            /\ calls' = Count("estimator")
            /\ tracked' = Append(tracked,
                              [raised |-> raised, d |-> track.d, shape |-> heap[r1].shape,
                               frame1 |-> r1, frame2 |-> r2])
            /\ IF raised = NoException
               THEN /\ sum' = IF IsNone(sum) THEN flow
                               ELSE [u |-> AddInto(sum.u, flow.u),
                                     v |-> AddInto(sum.v, flow.v)]
                    /\ valid_pairs' = valid_pairs + 1
                    /\ pair' = pair + 1
                    /\ UNCHANGED << pc, exc, origin >>
               ELSE IF AggregatorCatches(Head(raised))
               THEN \* logged, continue
                    /\ pair' = pair + 1
                    /\ UNCHANGED << sum, valid_pairs, pc, exc, origin >>
               ELSE /\ pc' = "raised"
                    /\ exc' = IF entry = "generate_forecast"
                              THEN AtSequencerBoundary(raised) ELSE raised
                    /\ origin' = Last(raised)
                    /\ UNCHANGED << sum, valid_pairs, pair >>
    /\ UNCHANGED << uv, other, worker >>
    /\ UNCHANGED << entry, cfg, frames, input0, args, lo, avg, current_field,
                    current_time, step, forecasts, result >>
    /\ UNCHANGED << folder, download >>

\* the end of calculate_average_velocity and, in generate_forecast, the seeding
\* of current_field and current_time
FinishAggregate ==
    /\ pc = "pairs"
    /\ pair = WindowLen - 1
    /\ IF NoValidPairs(valid_pairs)
       THEN /\ pc' = "raised"
            /\ exc' = IF entry = "generate_forecast"
                      THEN AtSequencerBoundary(NoValidPairsError)
                      ELSE NoValidPairsError
            /\ origin' = "ForecastError"
            /\ UNCHANGED << heap, avg, current_field, current_time, step, result,
                            pair, sum, valid_pairs, tracked >>
       ELSE LET mean == [u |-> DivideBy(sum.u, Divisor(valid_pairs, pair)),
                         v |-> DivideBy(sum.v, Divisor(valid_pairs, pair))]
            IN  IF entry = "generate_forecast"
                THEN /\ avg' = mean
                     \* the locals of calculate_average_velocity end with its call
                     /\ pair' = 0
                     /\ sum' = NoVelocity
                     /\ valid_pairs' = 0
                     /\ tracked' = <<>>
                     /\ heap' = Append(heap, AsFloat32(heap[frames[Len(frames)].data]))
                     /\ current_field' = Len(heap) + 1
                     /\ current_time' = frames[Len(frames)].timestamp
                     /\ step' = 1
                     /\ pc' = "steps"
                     /\ UNCHANGED << result, exc, origin >>
                ELSE /\ result' = [result EXCEPT !.velocity = mean]
                     /\ pc' = "returned"
                     /\ UNCHANGED << heap, avg, current_field, current_time, step,
                                     exc, origin, pair, sum, valid_pairs, tracked >>
    /\ UNCHANGED << uv, other, worker >>
    /\ UNCHANGED << entry, cfg, frames, input0, args, lo, forecasts, calls >>
    /\ UNCHANGED << folder, download >>

\* a handler that logs the failed step and goes on with the next one
AdvectionFailed_skipped(err) ==
    /\ calls' = Count("advector")
    /\ step' = step + 1
    /\ origin' = err
    /\ UNCHANGED << pc, exc, heap, current_field, forecasts >>

\* advect_field raised err inside the loop of generate_forecast: ForecastError
\* from advect_field, taken by the handler of generate_forecast and raised again;
\* the list built so far is dropped with the frame of the call
AdvectionFailed(err) ==
    /\ calls' = Count("advector")
    /\ pc' = "raised"
    /\ exc' = AtSequencerBoundary(RaiseInHandler("ForecastError", Raise(err)))
    /\ origin' = err
    /\ UNCHANGED << heap, current_field, step, forecasts >>

\* one iteration of the loop of generate_forecast
ForecastStep ==
    /\ pc = "steps"
    /\ step <= cfg.forecast_steps
    /\ \E remap_fails \in BOOLEAN,
          fault \in IF calls.evolution_errors < MaxEvolutionErrors THEN BOOLEAN ELSE { FALSE } :
        LET dt == StepSeconds(cfg)
            field == heap[StepInput(current_field, frames[Len(frames)].data)]
            err == AdvectError(field, avg, dt, remap_fails)
            advected == advect_field(field, avg, dt)
            everr == EvolveError(advected, dt, fault)
            \* on an error apply_growth_decay_model returns its argument itself
            made == IF everr = "none"
                    THEN << advected, apply_growth_decay_model(advected, dt) >>
                    ELSE << advected >>
            heap1 == heap \o made
            called == [calls EXCEPT !.advector = @ + 1, !.evolution = @ + 1,
                                    !.evolution_errors = IF everr = "none" THEN @ ELSE @ + 1]
            late == TimeOverflows(current_time, step * cfg.forecast_interval_minutes)
        IN  IF err # "none"
            THEN AdvectionFailed(err)
            ELSE IF everr # "none" /\ ~EvolutionCatches(everr)
            THEN /\ calls' = called
                 /\ heap' = Append(heap, advected)
                 /\ current_field' = Len(heap) + 1
                 /\ pc' = "raised"
                 /\ exc' = AtSequencerBoundary(Raise(everr))
                 /\ origin' = everr
                 /\ UNCHANGED << step, forecasts >>
            ELSE IF late
            THEN /\ calls' = called
                 /\ heap' = heap1
                 /\ current_field' = Len(heap1)
                 /\ pc' = "raised"
                 /\ exc' = AtSequencerBoundary(Raise("OverflowError"))
                 /\ origin' = "OverflowError"
                 /\ UNCHANGED << step, forecasts >>
            ELSE /\ calls' = called
                 /\ heap' = Append(heap1, RecordedGrid(heap1[Len(heap1)]))
                 /\ current_field' = CarriedField(Len(heap1), Len(heap1) + 1)
                 /\ forecasts' = Append(forecasts,
                        [timestamp |-> forecast_time(current_time, step, cfg),
                         data |-> Len(heap1) + 1,
                         confidence |-> Confidence(step),
                         method |-> "fluid_dynamics"])
                 /\ step' = step + 1
                 /\ UNCHANGED << pc, exc, origin >>
    /\ avg' = VelocityAfterAdvect(avg, StepSeconds(cfg))
    /\ UNCHANGED << tracked, uv, other, worker >>
    /\ UNCHANGED << entry, cfg, frames, input0, args, lo, pair, sum, valid_pairs,
                    current_time, result >>
    /\ UNCHANGED << folder, download >>

\* return forecasts
ReturnForecasts ==
    /\ pc = "steps"
    /\ step > cfg.forecast_steps
    /\ pc' = "returned"
    /\ result' = [result EXCEPT !.forecasts = forecasts]
    /\ UNCHANGED << tracked, uv, other, worker >>
    /\ UNCHANGED << entry, cfg, frames, heap, input0, args, lo, pair, sum, valid_pairs,
                    avg, current_field, current_time, step, forecasts, exc,
                    origin, calls >>
    /\ UNCHANGED << folder, download >>

\* advect_field called by the user
AdvectCall ==
    /\ pc = "call"
    /\ entry = "advect_field"
    /\ calls' = Count("advector")
    /\ \E remap_fails \in BOOLEAN :
        LET err == AdvectError(heap[args.field], args.vel, args.dt, remap_fails)
        IN  IF err # "none"
            THEN /\ pc' = "raised"
                 /\ exc' = RaiseInHandler("ForecastError", Raise(err))
                 /\ origin' = err
                 /\ UNCHANGED << heap, result >>
            ELSE /\ heap' = Append(heap, advect_field(heap[args.field], args.vel, args.dt))
                 /\ result' = [result EXCEPT !.array = Len(heap) + 1]
                 /\ pc' = "returned"
                 /\ UNCHANGED << exc, origin >>
    /\ UNCHANGED << tracked, uv, other, worker >>
    /\ UNCHANGED << entry, cfg, frames, input0, args, lo, pair, sum, valid_pairs,
                    avg, current_field, current_time, step, forecasts >>
    /\ UNCHANGED << folder, download >>

\* advect_field called again by the user, on the field the first call returned
\* and with the inverse velocity (-u, -v), same dt
Negated(a) == [a EXCEPT !.cells = Strict([c \in DOMAIN a.cells |-> -a.cells[c]])]

AdvectBackCall ==
    /\ pc = "returned"
    /\ entry = "advect_field"
    /\ calls.advector = 1
    /\ calls' = Count("advector")
    /\ \E remap_fails \in BOOLEAN :
        LET back == [u |-> Negated(args.vel.u), v |-> Negated(args.vel.v)]
            err == AdvectError(heap[result.array], back, args.dt, remap_fails)
        IN  IF err # "none"
            THEN /\ pc' = "raised"
                 /\ exc' = RaiseInHandler("ForecastError", Raise(err))
                 /\ origin' = err
                 /\ UNCHANGED << heap, result >>
            ELSE /\ heap' = Append(heap, advect_field(heap[result.array], back, args.dt))
                 /\ result' = [result EXCEPT !.array = Len(heap) + 1]
                 /\ UNCHANGED << pc, exc, origin >>
    /\ UNCHANGED << tracked, uv, other, worker >>
    /\ UNCHANGED << entry, cfg, frames, input0, args, lo, pair, sum, valid_pairs,
                    avg, current_field, current_time, step, forecasts >>
    /\ UNCHANGED << folder, download >>

\* apply_growth_decay_model called by the user
EvolveCall ==
    /\ pc = "call"
    /\ entry = "apply_growth_decay_model"
    /\ \E fault \in BOOLEAN :
        LET err == EvolveError(heap[args.field], args.dt, fault)
        IN  IF err = "none"
            THEN /\ calls' = Count("evolution")
                 /\ heap' = Append(heap, apply_growth_decay_model(heap[args.field], args.dt))
                 /\ result' = [result EXCEPT !.array = Len(heap) + 1]
                 /\ pc' = "returned"
                 /\ UNCHANGED << exc, origin >>
            ELSE IF EvolutionCatches(err)
            THEN \* return field
                 /\ calls' = [calls EXCEPT !.evolution = @ + 1, !.evolution_errors = @ + 1]
                 /\ result' = [result EXCEPT !.array = args.field]
                 /\ pc' = "returned"
                 /\ UNCHANGED << heap, exc, origin >>
            ELSE /\ calls' = [calls EXCEPT !.evolution = @ + 1, !.evolution_errors = @ + 1]
                 /\ pc' = "raised"
                 /\ exc' = Raise(err)
                 /\ origin' = err
                 /\ UNCHANGED << heap, result >>
    /\ UNCHANGED << tracked, uv, other, worker >>
    /\ UNCHANGED << entry, cfg, frames, input0, args, lo, pair, sum, valid_pairs,
                    avg, current_field, current_time, step, forecasts >>
    /\ UNCHANGED << folder, download >>

\* calculate_optical_flow called by the user
EstimateCall ==
    /\ pc = "call"
    /\ entry = "calculate_optical_flow"
    /\ calls' = Count("estimator")
    /\ \E track \in Tracks :
        LET f1 == heap[args.field]
            f2 == heap[args.field2]
            err == OpticalFlowError(f1, f2, track)
        IN  /\ heap' = HeapAfterClip(HeapAfterClip(heap, args.field), args.field2)
            /\ IF err # "none"
               THEN /\ pc' = "raised"
                    /\ exc' = RaiseInHandler(EstimatorError, Raise(err))
                    /\ origin' = err
                    /\ tracked' = Append(tracked,
                            [raised |-> exc', d |-> track.d, shape |-> f1.shape,
                             frame1 |-> args.field, frame2 |-> args.field2])
                    /\ UNCHANGED << uv, result >>
               ELSE /\ uv' = [u |-> SparseU(f1.shape, track.d),
                              v |-> SparseV(f1.shape, track.d)]
                    /\ result' = [result EXCEPT
                                    !.velocity = calculate_optical_flow(f1, f2, track)]
                    /\ tracked' = Append(tracked,
                            [raised |-> NoException, d |-> track.d, shape |-> f1.shape,
                             frame1 |-> args.field, frame2 |-> args.field2])
                    /\ pc' = "returned"
                    /\ UNCHANGED << exc, origin >>
    /\ UNCHANGED << other, worker >>
    /\ UNCHANGED << entry, cfg, frames, input0, args, lo, pair, sum, valid_pairs,
                    avg, current_field, current_time, step, forecasts >>
    /\ UNCHANGED << folder, download >>

Next ==
    \/ EnterForecast
    \/ EnterAggregate
    \/ EstimatePair
    \/ FinishAggregate
    \/ ForecastStep
    \/ ReturnForecasts
    \/ AdvectCall
    \/ AdvectBackCall
    \/ EvolveCall
    \/ EstimateCall

Spec == Init /\ [][Next]_vars

----------------------------------------------------------------------------
(* The worker: RadarWorker.run and RadarWorker.process_cycle (src/src/main.py). *)
(* The downloader, the processor and the uploader are called for what they     *)
(* return or raise; the forecaster is the one above.                           *)

\* the locals of one process_cycle call, as they are when it starts
CycleLocals ==
    [hdf5_files |-> 0, radar_frames |-> 0, forecast_png_files |-> 0,
     forecast_failed |-> FALSE, uploads |-> {}, log |-> {},
     download_failed |-> FALSE, processed |-> FALSE]

NewWorker ==
    [pc |-> "loop", cycle |-> 0, failed_cycles |-> 0, now |-> CycleLocals]

\* no call of the forecaster is running
ForecasterIdle ==
    /\ frames = <<>>
    /\ heap = <<>>
    /\ input0 = [frames |-> <<>>, heap |-> <<>>]
    /\ LocalsAt("idle")

\* the locals of generate_forecast as a new call has them (position "call"),
\* or as they are once the call is over and dropped (position "idle")
SetLocals(position) ==
    /\ pc' = position
    /\ lo' = 1
    /\ pair' = 0
    /\ sum' = NoVelocity
    /\ valid_pairs' = 0
    /\ avg' = NoVelocity
    /\ current_field' = 0
    /\ current_time' = 0
    /\ step' = 0
    /\ forecasts' = <<>>
    /\ result' = NoResult
    /\ exc' = NoException
    /\ origin' = "none"
    /\ calls' = [aggregator |-> 0, estimator |-> 0, advector |-> 0, evolution |-> 0,
                 evolution_errors |-> 0]
    /\ tracked' = <<>>
    /\ uv' = NoVelocity

\* the call is over: its frames, arrays and locals are dropped
DropCall ==
    /\ frames' = <<>>
    /\ heap' = <<>>
    /\ input0' = [frames |-> <<>>, heap |-> <<>>]
    /\ SetLocals("idle")

\* the files a download brings: none, too few for a forecast, or enough
FileCounts == { 0, 2, MaxFrames }

WorkerInit ==
    /\ entry = "generate_forecast"
    /\ cfg = DefaultConfig
    /\ args = NoArgs
    /\ ForecasterIdle
    /\ other = NoCall
    /\ worker = NewWorker
    /\ folder = NoFiles
    /\ download = NoDownload

Forecaster == << entry, cfg, frames, heap, input0, args, pc, lo, pair, sum,
                 valid_pairs, avg, current_field, current_time, step, forecasts,
                 result, exc, origin, calls, tracked, uv, other >>

Logged(w, message) == [w EXCEPT !.now.log = @ \cup { message }]

\* a handler around the download alone: log, and go on to the upload
CycleHandler_upload(w, kind) ==
    [Logged(w, "Unexpected error in processing cycle") EXCEPT !.pc = "upload"]

\* the handlers of process_cycle at lines 110-113: log, and return
CycleHandler(w, kind) ==
    [Logged(w, IF kind \in { "DownloadError", "ProcessingError", "ForecastError",
                             "UploadError" }
               THEN "Processing error" ELSE "Unexpected error in processing cycle")
        EXCEPT !.pc = "waiting"]

\* the top of `while True`: no connection (or the check raising) sleeps and
\* tries again; otherwise process_cycle is called
WorkerLoop ==
    /\ worker.pc = "loop"
    /\ worker.cycle < MaxCycles
    /\ \E connected \in BOOLEAN :
        worker' = IF connected
                  THEN [worker EXCEPT !.pc = "download", !.cycle = @ + 1,
                                      !.now = CycleLocals]
                  ELSE worker
    /\ UNCHANGED Forecaster
    /\ UNCHANGED << folder, download >>

\* step 1: download_hdf5_files
WorkerDownload ==
    /\ worker.pc = "download"
    /\ \/ \E kind \in { "DownloadError", "KeyError" } :
            worker' = CycleHandler(worker, kind)
       \/ \E n \in FileCounts :
            worker' = IF n = 0
                      THEN [Logged(worker, "No HDF5 files downloaded")
                               EXCEPT !.pc = "waiting"]
                      ELSE [worker EXCEPT !.pc = "process", !.now.hdf5_files = n]
    /\ UNCHANGED Forecaster
    /\ UNCHANGED << folder, download >>

\* step 2: batch_process
WorkerProcess ==
    /\ worker.pc = "process"
    /\ LET w == [worker EXCEPT !.now.processed = TRUE]
       IN  \/ worker' = CycleHandler(w, "ProcessingError")
           \/ worker' = [w EXCEPT !.pc = "load"]
    /\ UNCHANGED Forecaster
    /\ UNCHANGED << folder, download >>

\* `except ValueError` in the place of `except Exception`
ForecastHandlerCatches_value(kind) == kind = "ValueError"

\* `except Exception` at line 96: which kinds the handler takes
ForecastHandlerCatches(kind) == TRUE

\* step 3 and the call of step 4: the frames that load (a failing one is logged
\* and left out), and with three or more of them generate_forecast is called
WorkerLoad ==
    /\ worker.pc = "load"
    /\ \E j \in 0 .. Min(worker.now.hdf5_files, WindowSize) :
        LET w == IF j < Min(worker.now.hdf5_files, WindowSize)
                 THEN Logged(worker, "Error loading frame") ELSE worker
        IN  IF j >= MinForecastFrames
            THEN /\ worker' = [w EXCEPT !.pc = "forecast", !.now.radar_frames = j]
                 /\ frames' = BufferOf(j, "cells", << 1, 10 >>, 100)
                 /\ heap' = BufferHeap(j, "cells", << 1, 10 >>, 0)
                 /\ input0' = [frames |-> frames', heap |-> heap']
                 /\ SetLocals("call")
            ELSE /\ worker' = [w EXCEPT !.pc = "upload", !.now.radar_frames = j]
                 /\ UNCHANGED << frames, heap, input0, pc, lo, pair, sum, valid_pairs,
                                 avg, current_field, current_time, step, forecasts,
                                 result, exc, origin, calls, tracked, uv >>
    /\ UNCHANGED << entry, cfg, args, other >>
    /\ UNCHANGED << folder, download >>

\* step 4 after generate_forecast returned: each forecast is made a PNG; when
\* process_to_png raises, the handler at line 96 takes it and the files made
\* before stay in the list
WorkerRender ==
    /\ worker.pc = "forecast"
    /\ pc = "returned"
    /\ \E made \in 0 .. Len(result.forecasts) :
        LET w == [worker EXCEPT !.pc = "upload", !.now.forecast_png_files = made]
        IN  worker' = IF made < Len(result.forecasts)
                      THEN Logged(w, "Forecast generation failed") ELSE w
    /\ DropCall
    /\ UNCHANGED << entry, cfg, args, other >>
    /\ UNCHANGED << folder, download >>

\* step 4 after generate_forecast raised
WorkerForecastFailed ==
    /\ worker.pc = "forecast"
    /\ pc = "raised"
    /\ LET w == [worker EXCEPT !.now.forecast_failed = TRUE, !.failed_cycles = @ + 1]
       IN  worker' = IF ForecastHandlerCatches(Head(exc))
                     THEN [Logged(w, "Forecast generation failed") EXCEPT !.pc = "upload"]
                     ELSE CycleHandler(w, Head(exc))
    /\ DropCall
    /\ UNCHANGED << entry, cfg, args, other >>
    /\ UNCHANGED << folder, download >>

\* step 5: the upload of the current images and, when there are forecast
\* files, of the forecast images; an upload that raises is logged
WorkerUpload ==
    /\ worker.pc = "upload"
    /\ \E current_ok \in BOOLEAN, forecast_ok \in BOOLEAN :
        LET tried == IF current_ok /\ worker.now.forecast_png_files > 0
                     THEN { "current", "forecast" } ELSE { "current" }
            w == [worker EXCEPT !.pc = "waiting", !.now.uploads = tried]
        IN  worker' = IF current_ok /\ ("forecast" \in tried => forecast_ok)
                      THEN w ELSE Logged(w, "Upload failed")
    /\ UNCHANGED Forecaster
    /\ UNCHANGED << folder, download >>

\* process_cycle has returned: time.sleep(300), and the loop goes round
WorkerSleep ==
    /\ worker.pc = "waiting"
    /\ worker' = [worker EXCEPT !.pc = "loop"]
    /\ UNCHANGED Forecaster
    /\ UNCHANGED << folder, download >>

\* KeyboardInterrupt, at any point of the loop: no handler of process_cycle or
\* of the forecaster takes it, run logs it and breaks out of the loop
WorkerInterrupt ==
    /\ worker.pc \notin { "none", "stopped" }
    /\ worker' = [worker EXCEPT !.pc = "stopped"]
    /\ DropCall
    /\ UNCHANGED << entry, cfg, args, other >>
    /\ UNCHANGED << folder, download >>

WorkerNext ==
    \/ WorkerLoop
    \/ WorkerDownload
    \/ WorkerProcess
    \/ WorkerLoad
    \/ EnterForecast
    \/ EstimatePair
    \/ FinishAggregate
    \/ ForecastStep
    \/ ReturnForecasts
    \/ WorkerRender
    \/ WorkerForecastFailed
    \/ WorkerUpload
    \/ WorkerSleep
    \/ WorkerInterrupt

\* the handler of a failed forecast, the uploads and the sleep are straight-line
\* code of one thread: each call they make returns or raises, and the next
\* statement runs
WorkerSpec ==
    /\ WorkerInit
    /\ [][WorkerNext]_vars
    /\ WF_vars(WorkerForecastFailed)
    /\ WF_vars(WorkerUpload)
    /\ WF_vars(WorkerSleep)

----------------------------------------------------------------------------
(* Two calls of generate_forecast on one forecaster, on two threads.  Each   *)
(* call has its own arguments and locals; self.config and the memory of the *)
(* process are the same for both.  The locals of the call that is not       *)
(* running are kept in `other`.                                             *)

\* the frames of a buffer whose grids are at the references base + 1 .. base + n
BufferAt(n, tLast, base) ==
    [i \in 1 .. n |->
        [timestamp |-> tLast - (n - i) * FramePeriod, data |-> base + i,
         file_path |-> base + i, processed |-> FALSE]]

PairConfig == [forecast_steps |-> 2, forecast_interval_minutes |-> 10]

\* the arguments and locals of the running call
Running ==
    [frames |-> frames, input0 |-> input0, pc |-> pc, lo |-> lo, pair |-> pair,
     sum |-> sum, valid_pairs |-> valid_pairs, avg |-> avg,
     current_field |-> current_field, current_time |-> current_time,
     step |-> step, forecasts |-> forecasts, result |-> result, exc |-> exc,
     origin |-> origin, calls |-> calls, tracked |-> tracked, uv |-> uv]

\* a call that has not taken a step yet
NewCall(buffer, memory) ==
    [frames |-> buffer, input0 |-> [frames |-> buffer, heap |-> memory],
     pc |-> "call", lo |-> 1, pair |-> 0, sum |-> NoVelocity, valid_pairs |-> 0,
     avg |-> NoVelocity, current_field |-> 0, current_time |-> 0, step |-> 0,
     forecasts |-> <<>>, result |-> NoResult, exc |-> NoException,
     origin |-> "none",
     calls |-> [aggregator |-> 0, estimator |-> 0, advector |-> 0, evolution |-> 0,
                evolution_errors |-> 0],
     tracked |-> <<>>, uv |-> NoVelocity]

PairInit ==
    /\ entry = "generate_forecast"
    /\ cfg = PairConfig
    /\ args = NoArgs
    /\ worker = NoWorker
    /\ heap = BufferHeap(MinForecastFrames, "cells", << 1, 10 >>, 0)
                \o BufferHeap(MinForecastFrames, "raw", << 2, 10 >>, 0)
    /\ frames = BufferAt(MinForecastFrames, 100, 0)
    /\ other = NewCall(BufferAt(MinForecastFrames, 200, MinForecastFrames), heap)
    /\ input0 = [frames |-> frames, heap |-> heap]
    /\ Locals0
    /\ folder = NoFiles
    /\ download = NoDownload

\* current_field kept on the forecaster (self.current_field): after a switch
\* the running call finds the value the other call left
LocalAfterSwitch_onself(own, left) == left

\* a local of generate_forecast after the thread of its call is switched to:
\* the value this call gave it (left: its value in the call that ran before)
LocalAfterSwitch(own, left) == own

\* the scheduler switches to the thread of the other call
Switch ==
    /\ other.pc # "none"
    /\ other' = Running
    /\ frames' = other.frames
    /\ input0' = other.input0
    /\ pc' = other.pc
    /\ lo' = other.lo
    /\ pair' = other.pair
    /\ sum' = other.sum
    /\ valid_pairs' = other.valid_pairs
    /\ avg' = other.avg
    /\ current_field' = LocalAfterSwitch(other.current_field, current_field)
    /\ current_time' = other.current_time
    /\ step' = other.step
    /\ forecasts' = other.forecasts
    /\ result' = other.result
    /\ exc' = other.exc
    /\ origin' = other.origin
    /\ calls' = other.calls
    /\ tracked' = other.tracked
    /\ uv' = other.uv
    /\ UNCHANGED << entry, cfg, heap, args, worker >>
    /\ UNCHANGED << folder, download >>

PairNext ==
    \/ EnterForecast
    \/ EstimatePair
    \/ FinishAggregate
    \/ ForecastStep
    \/ ReturnForecasts
    \/ Switch

PairSpec == PairInit /\ [][PairNext]_vars

----------------------------------------------------------------------------
(* Properties *)

IsForecast == entry = "generate_forecast"

IsAggregate == entry = "calculate_average_velocity"

IsAdvect == entry = "advect_field"

NoCalls == \A what \in DOMAIN calls : calls[what] = 0

InRange(a) == \A c \in DOMAIN a.cells : a.cells[c] \in 0 .. MaxIntensity

\* C1: generate_forecast on 0, 1 or 2 frames raises ForecastError, hands no
\* forecast frame to the caller, and calls neither the aggregator, the motion
\* estimator, the advector nor the evolution model.
C1_ShortBufferRaises ==
    (IsForecast /\ Len(input0.frames) < 3) =>
        /\ pc \in { "call", "raised" }
        /\ pc = "raised" => exc = << "ForecastError" >>
        /\ result = NoResult
        /\ forecasts = <<>>
        /\ NoCalls

C1_Witness == IsForecast /\ Len(input0.frames) = 2 /\ pc = "raised"

\* C2: in every forecast frame returned for a buffer of in-range grids, every
\* cell of the grid is in 0..255, whatever the step count and the interval.
C2_GridsInRange ==
    (IsForecast /\ pc = "returned" /\ \A i \in DOMAIN input0.heap : InRange(input0.heap[i])) =>
        \A k \in DOMAIN result.forecasts : InRange(heap[result.forecasts[k].data])

C2_Witness ==
    /\ IsForecast /\ pc = "returned"
    /\ \A i \in DOMAIN input0.heap : InRange(input0.heap[i])
    /\ Len(result.forecasts) >= 2
    /\ \E c \in DOMAIN heap[result.forecasts[2].data].cells :
          heap[result.forecasts[2].data].cells[c] >= 128

\* C3: over the frames of one run, confidence never increases from a step to
\* the next and is at least the floor 0.1 and at most 1 at every step.
C3_ConfidenceDecays ==
    (IsForecast /\ pc = "returned") =>
        /\ \A k \in DOMAIN result.forecasts :
              /\ result.forecasts[k].confidence >= ConfidenceFloor
              /\ result.forecasts[k].confidence <= 100
        /\ \A k \in 1 .. Len(result.forecasts) - 1 :
              result.forecasts[k + 1].confidence <= result.forecasts[k].confidence

C3_Witness ==
    /\ IsForecast /\ pc = "returned"
    /\ Len(result.forecasts) >= 7
    /\ result.forecasts[1].confidence = 85
    /\ result.forecasts[6].confidence = ConfidenceFloor
    /\ result.forecasts[7].confidence = ConfidenceFloor

\* C4: a successful run with N steps and interval I returns exactly N frames in
\* step order, frame k stamped (timestamp of the last input frame) + k * I, so
\* the stamps increase strictly, are I apart and start I after the last input.
C4_FramesAndStamps ==
    (IsForecast /\ pc = "returned") =>
        LET out == result.forecasts
            t0 == Last(input0.frames).timestamp
            I == cfg.forecast_interval_minutes
        IN  /\ Len(out) = cfg.forecast_steps
            /\ \A k \in DOMAIN out : out[k].timestamp = t0 + k * I
            /\ \A k \in 1 .. Len(out) - 1 :
                  /\ out[k].timestamp < out[k + 1].timestamp
                  /\ out[k + 1].timestamp - out[k].timestamp = I
            /\ Len(out) >= 1 => out[1].timestamp = t0 + I

C4_Witness ==
    /\ IsForecast /\ pc = "returned"
    /\ cfg = DefaultConfig
    /\ Len(result.forecasts) = 6

\* the advector raised in this run
AdvectionRaised == origin \in { "cv2.error", "ValueError" }

\* C5: when advection fails at step k of a run, the run fails with
\* ForecastError, the caller gets no frame (not the k-1 already built), and no
\* later step runs: the failing call stays the last call of the advector.
C5_AdvectionAborts ==
    (IsForecast /\ AdvectionRaised) =>
        /\ pc = "raised"
        /\ Head(exc) = "ForecastError"
        /\ result = NoResult
        /\ calls.advector = step
        /\ calls.evolution = step - 1
        /\ Len(forecasts) = step - 1

C5_Witness ==
    /\ IsForecast /\ AdvectionRaised
    /\ step = 3 /\ step < cfg.forecast_steps
    /\ Len(forecasts) = 2

\* C6: every failure inside a forecast call reaches the caller as a
\* ForecastError whose chain ends in the exception that started the failure;
\* no exception of another kind leaves generate_forecast.
C6_ForecastErrorWithCause ==
    IsForecast =>
        /\ origin # "none" => pc = "raised"
        /\ pc = "raised" =>
              /\ Head(exc) = "ForecastError"
              /\ Last(exc) = origin
              /\ result = NoResult

C6_Witness ==
    /\ IsForecast /\ pc = "raised"
    /\ exc = << "ForecastError", "OverflowError" >>
    /\ Len(forecasts) >= 1

EveryPairFailed ==
    /\ pc \in { "pairs", "raised", "returned" }
    /\ WindowLen >= 2
    /\ pair = WindowLen - 1
    /\ calls.estimator = WindowLen - 1
    /\ valid_pairs = 0

C9_InputsUntouched ==
    IsForecast =>
        /\ frames = input0.frames
        /\ \A i \in DOMAIN input0.heap : heap[i] = input0.heap[i]
        /\ \A k \in DOMAIN forecasts, i \in DOMAIN frames :
              forecasts[k].data # frames[i].data
        /\ \A k \in DOMAIN result.forecasts, i \in DOMAIN frames :
              result.forecasts[k].data # frames[i].data

C9_Witness ==
    /\ IsForecast /\ pc = "returned"
    /\ Len(result.forecasts) >= 2
    /\ ~InRange(input0.heap[1])
    /\ calls.estimator >= 2

ZeroVelocity(vel) ==
    /\ \A c \in DOMAIN vel.u.cells : vel.u.cells[c] = 0
    /\ \A c \in DOMAIN vel.v.cells : vel.v.cells[c] = 0

\* C10: advect_field with a velocity that is zero in every cell returns, for
\* every field and every dt, a field equal to the input in every cell.
C10_ZeroVelocityIdentity ==
    (IsAdvect /\ pc = "returned" /\ ZeroVelocity(args.vel)) =>
        LET in == AsFloat32(heap[args.field])
            out == heap[result.array]
        IN  /\ out.shape = in.shape
            /\ \A c \in DOMAIN in.cells : out.cells[c] = in.cells[c]

C10_Witness ==
    /\ IsAdvect /\ pc = "returned" /\ ZeroVelocity(args.vel)
    /\ args.dt = 600
    /\ heap[args.field].dtype = "float32"
    /\ \E c \in DOMAIN heap[args.field].cells : heap[args.field].cells[c] = 12345

\* the caller advected a field with the constant velocity (k, 0) and then the
\* result with (-k, 0), and both calls returned
RoundTrip ==
    /\ IsAdvect /\ pc = "returned" /\ calls.advector = 2
    /\ \A c \in DOMAIN args.vel.v.cells : args.vel.v.cells[c] = 0

\* the whole number of cells the first step moves the field to the right
Shift == (args.vel.u.cells[<< 0, 0 >>] \div FScale) * args.dt

\* C11 as stated: after the round trip (k, 0) then (-k, 0) the field equals the
\* original in every cell, the cells within k * dt of the borders included.
C11_AsStated ==
    RoundTrip =>
        \A c \in DOMAIN heap[args.field].cells :
            heap[result.array].cells[c] = AsFloat32(heap[args.field]).cells[c]

\* C11, amended: after the round trip (k, 0) then (-k, 0), k * dt a whole number
\* of cells, the field equals the original in every cell (y, x) whose column
\* x + k * dt is inside the grid; the cells nearer than k * dt to the border the
\* first step moves the field towards are not restored.
C11_InteriorRoundTrip ==
    RoundTrip =>
        /\ heap[result.array].shape = heap[args.field].shape
        /\ \A c \in DOMAIN heap[args.field].cells :
              (c[2] + Shift \in 0 .. Cols(heap[args.field]) - 1) =>
                  heap[result.array].cells[c] = AsFloat32(heap[args.field]).cells[c]

C11_Witness ==
    /\ RoundTrip
    /\ Shift = 1
    /\ heap[args.field].dtype = "float32"
    /\ heap[result.array].cells[<< 0, 8 >>] = heap[args.field].cells[<< 0, 8 >>]
    /\ heap[result.array].cells[<< 0, 9 >>] # heap[args.field].cells[<< 0, 9 >>]

IsEvolve == entry = "apply_growth_decay_model"

\* every value of a field as a number in 0..255 (float32 in its fixed point)
ValuesInRange(a) ==
    \A c \in DOMAIN a.cells :
        /\ ToFloat32(a.dtype, a.cells[c]) >= 0
        /\ ToFloat32(a.dtype, a.cells[c]) <= MaxIntensity * FScale

\* C12 as stated: for every field, of any element type and with any values, and
\* every dt, what apply_growth_decay_model returns has the shape of the field
\* and every value in 0..255.
C12_AsStated ==
    (IsEvolve /\ pc = "returned") =>
        /\ heap[result.array].shape = input0.heap[args.field].shape
        /\ ValuesInRange(heap[result.array])

\* a direct call of apply_growth_decay_model does not raise and, when an error
\* occurred inside it, returns the very field it was passed, values untouched
SoftFailReturnsField ==
    IsEvolve =>
        /\ pc # "raised"
        /\ exc = NoException
        /\ (pc = "returned" /\ calls.evolution_errors > 0) =>
              /\ result.array = args.field
              /\ heap = input0.heap

\* a step of generate_forecast in which the evolution model has an error goes
\* on with the advected field as it is: that field is current_field, and unless
\* the timestamp of the step overflows, its grid is recorded and the loop goes
\* to the next step
RunContinues ==
    (IsForecast /\ calls.evolution_errors' > calls.evolution_errors) =>
        /\ heap'[current_field'] = advect_field(heap[current_field], avg, StepSeconds(cfg))
        /\ pc' = "raised" => origin' = "OverflowError"
        /\ pc' # "raised" =>
              /\ pc' = pc
              /\ step' = step + 1
              /\ Len(forecasts') = Len(forecasts) + 1
              /\ heap'[Last(forecasts').data] = AsUint8(heap'[current_field'])

\* C13: the evolution model never raises; when an error occurs inside it, it
\* returns the field it was given, unchanged, and a forecast run goes on with
\* that field.
C13_SoftFail == []SoftFailReturnsField /\ [][RunContinues]_vars

C13_Witness ==
    /\ IsForecast /\ pc = "returned"
    /\ calls.evolution_errors = 1
    /\ Len(result.forecasts) = 6

\* what the three effects make of one cell when each acts on the field as the
\* effect before left it
EvolveCurrent(x, dt) ==
    LET grown == IF GrowthMask(x) THEN Grow(x, dt) ELSE x
        decayed == IF DecayMask(grown) THEN Decay(grown, dt) ELSE grown
    IN  Clip(RoundDiv(decayed * DecayFactor(dt), EScale), 0, MaxIntensity * FScale)

\* C20 as stated: the targeted decay scales down the cells whose value after
\* the growth step exceeds 180, for every dt.
C20_AsStated ==
    (IsEvolve /\ pc = "returned" /\ calls.evolution_errors = 0) =>
        \A c \in DOMAIN heap[result.array].cells :
            heap[result.array].cells[c] = EvolveCurrent(heap[args.field].cells[c], args.dt)

\* the forecast call of the running cycle failed and process_cycle is past it
AfterFailedForecast ==
    /\ worker.pc \in { "upload", "waiting" }
    /\ worker.now.forecast_failed

\* a cycle whose forecast call failed has no forecast file, has the failure in
\* the log, and by the time process_cycle returns has tried to upload the
\* current images
FailedForecastIsLogged ==
    AfterFailedForecast =>
        /\ worker.now.forecast_png_files = 0
        /\ "Forecast generation failed" \in worker.now.log
        /\ "forecast" \notin worker.now.uploads
        /\ worker.pc = "waiting" => "current" \in worker.now.uploads

\* C14: a failed forecast call gives the cycle no forecast frame and does not
\* end the process: process_cycle logs the error, still tries to upload the
\* current images and returns, and the run loop comes round for the next cycle
\* (unless the operator interrupts it).
C14_FailureDoesNotCrash ==
    /\ []FailedForecastIsLogged
    /\ (worker.pc = "forecast" /\ pc = "raised") ~> (worker.pc \in { "loop", "stopped" })

C14_Witness ==
    /\ worker.pc = "forecast"
    /\ worker.cycle = 2
    /\ worker.failed_cycles = 1
    /\ pc = "steps"

IsBufferCall == IsForecast \/ IsAggregate

\* the frames of the buffer do not all have the same shape
MixedShapes ==
    \E i, j \in DOMAIN input0.frames :
        input0.heap[input0.frames[i].data].shape # input0.heap[input0.frames[j].data].shape

\* C15 as stated: a buffer whose frames do not all have the same shape is
\* rejected: neither calculate_average_velocity nor generate_forecast returns
\* a result computed from the pairs that happen to match.
C15_AsStated == (IsBufferCall /\ MixedShapes) => pc # "returned"

\* the velocity fields calculate_average_velocity can return for a buffer of
\* three frames of one shape: the flow of one pair, or the mean of two
AloneVelocities ==
    [shape \in Shapes |->
        LET flow == [d \in Displacements |->
                        calculate_optical_flow([shape |-> shape], [shape |-> shape],
                                               [fails |-> FALSE, d |-> d])]
        IN  { flow[d] : d \in Displacements }
            \cup { [u |-> DivideBy(AddInto(flow[d1].u, flow[d2].u), 2),
                    v |-> DivideBy(AddInto(flow[d1].v, flow[d2].v), 2)] :
                      d1 \in Displacements, d2 \in Displacements }] @@ <<>>

\* the fields current_field can hold after k steps from the field start with
\* the velocity vel: each step advects, and evolves unless the evolution fails
RECURSIVE AloneFields(_, _, _)
AloneFields(start, vel, k) ==
    IF k = 0 THEN { start }
    ELSE UNION { LET advected == advect_field(f, vel, StepSeconds(cfg))
                 IN  { advected, apply_growth_decay_model(advected, StepSeconds(cfg)) } :
                 f \in AloneFields(start, vel, k - 1) }

\* what a call returned is what the same call returns when it runs alone: it
\* follows from its own frames, self.config and the answers of cv2 alone
AsAlone(call) ==
    call.pc = "returned" =>
        LET last == heap[Last(call.frames).data]
        IN  /\ call.avg \in AloneVelocities[last.shape]
            /\ Len(call.result.forecasts) = cfg.forecast_steps
            /\ \A k \in DOMAIN call.result.forecasts :
                  /\ call.result.forecasts[k].timestamp =
                        Last(call.frames).timestamp + k * cfg.forecast_interval_minutes
                  /\ call.result.forecasts[k].confidence = Confidence(k)
                  /\ \E f \in AloneFields(AsFloat32(last), call.avg, k) :
                        heap[call.result.forecasts[k].data] = AsUint8(f)

\* C16: two calls of generate_forecast on one forecaster, each with its own
\* buffer, interleaved in any way (one after the other included), each return
\* the frames they return when run alone, and self.config is not written.
C16_CallsIndependent ==
    /\ AsAlone(Running)
    /\ other.pc # "none" => AsAlone(other)
    /\ cfg = PairConfig

C16_Witness ==
    /\ pc = "returned" /\ other.pc = "returned"
    /\ result.forecasts[1].data > other.result.forecasts[1].data
    /\ result.forecasts[1].data < other.result.forecasts[2].data
    /\ heap[result.forecasts[2].data] # heap[other.result.forecasts[2].data]

\* the pairs of the loop whose estimation succeeded and was added
Succeeded == SelectSeq(tracked, LAMBDA t : t.raised = NoException)

\* the flow of each of them
FlowOf(t) ==
    calculate_optical_flow([shape |-> t.shape], [shape |-> t.shape],
                           [fails |-> FALSE, d |-> t.d])

\* the element-wise mean of the arrays a[1], ..., a[n], in the shape of a[1]
MeanOf(a) ==
    [a[1] EXCEPT !.cells =
        [c \in DOMAIN a[1].cells |->
            LET S[i \in 0 .. Len(a)] ==
                    IF i = 0 THEN 0 ELSE S[i - 1] + BroadcastAt(a[i], c[1], c[2])
            IN  RoundDiv(S[Len(a)], Len(a))]]

\* C17: what calculate_average_velocity returns is the element-wise mean of the
\* velocity fields of exactly the pairs that succeeded: failed pairs add
\* nothing and are not counted, wherever in the window they are.
C17_MeanOfSuccessful ==
    (IsAggregate /\ pc = "returned") =>
        /\ Len(tracked) = Len(frames) - 1
        /\ Len(Succeeded) >= 1
        /\ result.velocity.u = MeanOf([i \in DOMAIN Succeeded |-> FlowOf(Succeeded[i]).u])
        /\ result.velocity.v = MeanOf([i \in DOMAIN Succeeded |-> FlowOf(Succeeded[i]).v])

C17_Witness ==
    /\ IsAggregate /\ pc = "returned"
    /\ Len(tracked) = 3
    /\ tracked[1].raised = NoException /\ tracked[1].d = << 1, 1 >>
    /\ tracked[2].raised # NoException
    /\ tracked[3].raised = NoException /\ tracked[3].d = << 0, 0 >>

\* the tracker could not be evaluated in call i of calculate_optical_flow
TrackerFailed(i) == tracked[i].raised # NoException /\ Last(tracked[i].raised) = "cv2.error"

IsEstimate == entry = "calculate_optical_flow"

\* the anchors of a grid: every tenth column of every tenth row
IsAnchor(c) == c[1] % Stride = 0 /\ c[2] % Stride = 0

\* C19 as stated: for every shape, the displacement the tracker found for the
\* anchor at (x, y) is in cell [y, x] of u and v before smoothing, and every
\* other cell is zero, also when cols is not a multiple of 10.
C19_AsStated ==
    (IsEstimate /\ pc = "returned") =>
        \A c \in DOMAIN uv.u.cells :
            /\ uv.u.cells[c] = IF IsAnchor(c) THEN tracked[1].d[1] * FScale ELSE 0
            /\ uv.v.cells[c] = IF IsAnchor(c) THEN tracked[1].d[2] * FScale ELSE 0

\* once the loop of steps runs, calculate_average_velocity has been called once
OneAggregatorCall ==
    IsForecast =>
        /\ calls.aggregator <= 1
        /\ (pc = "steps" \/ calls.advector > 0) => calls.aggregator = 1
        /\ calls.aggregator = 0 => calls.advector = 0

\* a step of the loop advects with u_avg, v_avg as the Aggregator returned them,
\* calls neither the Aggregator nor the Motion Estimator and leaves u_avg, v_avg
\* as they are
SameVelocity ==
    (IsForecast /\ pc = "steps") =>
        /\ avg' = avg
        /\ calls'.aggregator = calls.aggregator
        /\ calls'.estimator = calls.estimator
        /\ (calls'.advector > calls.advector /\ origin' \notin { "ValueError", "cv2.error" }) =>
              \E r \in DOMAIN heap' :
                  /\ r > Len(heap)
                  /\ heap'[r] = advect_field(heap[current_field], avg, StepSeconds(cfg))

\* C21: in one run of generate_forecast the Aggregator is called once, before
\* the first step, and every step advects with the velocity field it returned;
\* the field is not estimated again and not modified between the steps.
C21_OneVelocity == []OneAggregatorCall /\ [][SameVelocity]_vars

C21_Witness ==
    /\ IsForecast /\ pc = "returned"
    /\ Len(result.forecasts) = MaxSteps
    /\ calls.advector = MaxSteps
    /\ \E c \in DOMAIN avg.u.cells : avg.u.cells[c] # 0

----------------------------------------------------------------------------
(* generate_forecast on buffers as long as the window of ten frames, and    *)
(* longer.                                                                  *)

LongBuffers == { MinForecastFrames, WindowSize + 1, WindowSize + 2 }

WindowInit ==
    /\ entry = "generate_forecast"
    /\ cfg = DefaultConfig
    /\ args = NoArgs
    /\ \E n \in LongBuffers :
        /\ frames = BufferOf(n, "cells", << 1, 10 >>, 200)
        /\ heap = BufferHeap(n, "cells", << 1, 10 >>, 0)
    /\ input0 = [frames |-> frames, heap |-> heap]
    /\ Locals0
    /\ other = NoCall
    /\ worker = NoWorker
    /\ folder = NoFiles
    /\ download = NoDownload

WindowNext ==
    \/ EnterForecast
    \/ EstimatePair
    \/ FinishAggregate
    \/ ForecastStep
    \/ ReturnForecasts

WindowSpec == WindowInit /\ [][WindowNext]_vars

\* C22: for a buffer of n >= 3 frames the Motion Estimator is given the
\* consecutive pairs of the last min(10, n) frames, in their order, min(10, n) - 1
\* pairs in all, and the field the first step advects is a copy of the grid of
\* the last frame of the buffer.
C22_Window ==
    (IsForecast /\ Len(frames) >= MinForecastFrames) =>
        LET n == Len(frames)
            m == Min(10, n)
        IN  /\ pc = "pairs" =>
                /\ Len(tracked) = pair
                /\ \A i \in DOMAIN tracked :
                      /\ tracked[i].frame1 = input0.frames[n - m + i].data
                      /\ tracked[i].frame2 = input0.frames[n - m + i + 1].data
            /\ pc \in { "steps", "returned", "raised" } => calls.estimator = m - 1
            /\ (pc = "steps" /\ calls.advector = 0) =>
                /\ current_field \notin DOMAIN input0.heap
                /\ heap[current_field] = AsFloat32(input0.heap[input0.frames[n].data])
                /\ current_time = input0.frames[n].timestamp

C22_Witness ==
    /\ IsForecast /\ pc = "returned"
    /\ Len(frames) = 12
    /\ calls.estimator = 9
    /\ Len(result.forecasts) = 6

\* k times advect-then-evolve, from the field seed
RECURSIVE Chained(_, _, _, _)
Chained(seed, vel, dt, k) ==
    IF k = 0 THEN seed
    ELSE apply_growth_decay_model(advect_field(Chained(seed, vel, dt, k - 1), vel, dt), dt)

\* while no evolution call has failed, the frame recorded last and the working
\* field are what k successive steps make of the copy of the last input grid
FramesChained ==
    (IsForecast /\ pc \in { "steps", "returned" } /\ calls.evolution_errors = 0
        /\ forecasts # <<>>) =>
        LET k == Len(forecasts)
            f == Chained(AsFloat32(input0.heap[Last(input0.frames).data]), avg,
                         StepSeconds(cfg), k)
        IN  /\ heap[current_field] = f
            /\ heap[forecasts[k].data] = AsUint8(f)

\* a completed step advects the working field the step before left (at step 1
\* the copy of the last grid), makes a new array of it and writes no other
ChainedStep ==
    (IsForecast /\ pc = "steps" /\ step' = step + 1) =>
        LET advected == advect_field(heap[current_field], avg, StepSeconds(cfg))
        IN  /\ current_field \notin DOMAIN input0.heap
            /\ current_field' > Len(heap)
            /\ heap'[current_field'] =
                  IF calls'.evolution_errors = calls.evolution_errors
                  THEN apply_growth_decay_model(advected, StepSeconds(cfg))
                  ELSE advected
            /\ \A r \in DOMAIN heap : heap'[r] = heap[r]

\* C23: the steps of a forecast are chained: step k + 1 advects the evolved
\* field of step k (step 1: the copy of the last input grid), never the
\* observation again, so frame k is k advect-then-evolve applications to the seed.
C23_StepsChained == []FramesChained /\ [][ChainedStep]_vars

C23_Witness ==
    /\ IsForecast /\ pc = "returned"
    /\ calls.evolution_errors = 0
    /\ Len(result.forecasts) = MaxSteps
    /\ \E c \in DOMAIN avg.u.cells : avg.u.cells[c] # 0
    /\ heap[result.forecasts[1].data] # heap[result.forecasts[2].data]

\* the backward origin of grid index k before it is clamped, in units of 1/SubCell
Origin(k, w, dt) == GridCoord(k) - RoundDiv(SubCell * w * dt, FScale)

InGrid(X, extent) == X >= 0 /\ X <= SubCell * (extent - 1)

\* the point of the grid nearest to X, and the cell nearest to that point
NearestPoint(X, extent) == Clip(X, 0, SubCell * (extent - 1))

NearestCell(X, extent) == RoundDiv(NearestPoint(X, extent), SubCell)

\* the field at the point (X, Y) of the grid, interpolated between the cells of
\* the grid around the point and no other value
AtPoint(src, X, Y) ==
    LET ix == X \div SubCell
        fx == X % SubCell
        iy == Y \div SubCell
        fy == Y % SubCell
        ix1 == Min(ix + 1, Cols(src) - 1)
        iy1 == Min(iy + 1, Rows(src) - 1)
    IN  RoundDiv(  (SubCell - fx) * (SubCell - fy) * src.cells[<< iy, ix >>]
                 + fx * (SubCell - fy) * src.cells[<< iy, ix1 >>]
                 + (SubCell - fx) * fy * src.cells[<< iy1, ix >>]
                 + fx * fy * src.cells[<< iy1, ix1 >>],
                 SubCell * SubCell)

\* one call of advect_field has returned
Advected == IsAdvect /\ pc = "returned" /\ calls.advector = 1

\* C24 as stated: every output cell is sampled at its backward origin clamped
\* into the grid, and a cell whose origin is outside the grid takes the value of
\* the nearest border cell of the input.
C24_AsStated ==
    Advected =>
        LET in == AsFloat32(heap[args.field])
            out == heap[result.array]
        IN  \A c \in DOMAIN out.cells :
                LET X == Origin(c[2], args.vel.u.cells[c], args.dt)
                    Y == Origin(c[1], args.vel.v.cells[c], args.dt)
                IN  (~InGrid(X, Cols(in)) \/ ~InGrid(Y, Rows(in))) =>
                        out.cells[c] =
                            in.cells[<< NearestCell(Y, Rows(in)), NearestCell(X, Cols(in)) >>]

\* C24, amended: every output cell is the input sampled at its backward origin
\* clamped into the grid, from cells of the grid only; a cell whose origin is
\* outside the grid takes the value the input has at the nearest point of the
\* border, which is the value of the nearest border cell when that point is a
\* cell, and the interpolation of the two border cells around it otherwise.
C24_ClampedSampling ==
    Advected =>
        LET in == AsFloat32(heap[args.field])
            out == heap[result.array]
        IN  \A c \in DOMAIN out.cells :
                LET X == NearestPoint(Origin(c[2], args.vel.u.cells[c], args.dt), Cols(in))
                    Y == NearestPoint(Origin(c[1], args.vel.v.cells[c], args.dt), Rows(in))
                IN  /\ out.cells[c] = AtPoint(in, X, Y)
                    /\ (X % SubCell = 0 /\ Y % SubCell = 0) =>
                          out.cells[c] = in.cells[<< Y \div SubCell, X \div SubCell >>]

C24_Witness ==
    /\ Advected
    /\ args.dt = 1
    /\ Rows(heap[args.field]) = 2
    /\ args.vel.u.cells[<< 1, 0 >>] = FScale
    /\ args.vel.v.cells[<< 1, 0 >>] = FScale \div 4
    /\ heap[result.array].cells[<< 1, 0 >>] # AsFloat32(heap[args.field]).cells[<< 1, 0 >>]
    /\ heap[result.array].cells[<< 1, 0 >>] # AsFloat32(heap[args.field]).cells[<< 0, 0 >>]
    /\ heap[result.array].cells[<< 1, 0 >>] # 0

\* a direct call of apply_growth_decay_model has returned
Evolved == IsEvolve /\ pc = "returned"

\* the global decay alone: x * exp(-0.1 * dt / 3600), kept in 0..255
OnlyGlobalDecay(x, dt) ==
    Clip(RoundDiv(x * DecayFactor(dt), EScale), 0, 255 * FScale)

\* C25: in one call of apply_growth_decay_model the growth set (80 < value < 150)
\* and the decay set (value > 180) are taken from the field as passed and are
\* disjoint, no cell receives both targeted effects, and the cells with value
\* <= 80 or in [150, 180] (80, 150 and 180 included) receive the global decay
\* only. (A call with an internal error changes no cell at all.)
C25_DisjointEffects ==
    Evolved =>
        LET in == input0.heap[args.field]
            out == heap[result.array]
            dt == args.dt
        IN  IF calls.evolution_errors > 0
            THEN out = in
            ELSE \A c \in DOMAIN in.cells :
                    LET x == in.cells[c]
                        grows == x > 80 * FScale /\ x < 150 * FScale
                        decays == x > 180 * FScale
                    IN  /\ ~(grows /\ decays)
                        /\ out.cells[c] =
                              IF grows THEN OnlyGlobalDecay(Grow(x, dt), dt)
                              ELSE IF decays THEN OnlyGlobalDecay(Decay(x, dt), dt)
                              ELSE OnlyGlobalDecay(x, dt)
                        /\ (x <= 80 * FScale \/ (x >= 150 * FScale /\ x <= 180 * FScale)) =>
                              out.cells[c] = OnlyGlobalDecay(x, dt)

C25_Witness ==
    /\ Evolved
    /\ calls.evolution_errors = 0
    /\ args.dt = 18000
    /\ \A x \in { 8000, 15000, 18000, 14999, 18001 } :
          \E c \in DOMAIN input0.heap[args.field].cells : input0.heap[args.field].cells[c] = x

\* every frame of the buffer has fewer than ten columns
NarrowBuffer ==
    /\ IsBufferCall
    /\ \A i \in DOMAIN input0.frames : Cols(input0.heap[input0.frames[i].data]) < 10

\* C26: for frames of fewer than 10 columns the Motion Estimator fails for
\* every pair, the Aggregator finds no valid pair, and a forecast call on such a
\* buffer does not return: it fails with ForecastError, whatever the frames hold.
C26_NarrowFramesFail ==
    NarrowBuffer =>
        /\ \A i \in DOMAIN tracked :
              /\ tracked[i].raised # NoException
              /\ Head(tracked[i].raised) = "ForecastError"
        /\ valid_pairs = 0
        /\ pc \notin { "steps", "returned" }
        /\ pc = "raised" => Head(exc) = "ForecastError"

C26_Witness ==
    /\ NarrowBuffer /\ IsForecast
    /\ pc = "raised"
    /\ exc = << "ForecastError", "ForecastError" >>
    /\ Len(tracked) = 3
    /\ \A i \in DOMAIN tracked :
          /\ tracked[i].raised = << "ForecastError", "ZeroDivisionError" >>
          /\ tracked[i].shape = << 2, 9 >>

\* the grid recorded last is the working field cut to 8-bit integers (the
\* fraction dropped, modulo 256), in an array of its own; the working field
\* stays a float32 array
RecordedIsTruncation ==
    (IsForecast /\ pc \in { "steps", "returned" } /\ forecasts # <<>>) =>
        LET working == heap[current_field]
            recorded == heap[Last(forecasts).data]
        IN  /\ working.dtype = "float32"
            /\ recorded.dtype = "uint8"
            /\ Last(forecasts).data # current_field
            /\ DOMAIN recorded.cells = DOMAIN working.cells
            /\ \A c \in DOMAIN working.cells :
                  recorded.cells[c] = (working.cells[c] \div FScale) % 256

\* a step advects the working field, fractions included, not a recorded grid
WorkingFieldAdvected ==
    (IsForecast /\ pc = "steps" /\ step' = step + 1) =>
        /\ \A k \in DOMAIN forecasts : forecasts[k].data # current_field
        /\ \E r \in DOMAIN heap' :
              /\ r > Len(heap)
              /\ heap'[r] = advect_field(heap[current_field], avg, StepSeconds(cfg))

\* C30: each recorded grid is the working field truncated to 8-bit integers,
\* and the working field goes to the next step with its fractions: the
\* truncation of a recorded frame does not reach the later steps.
C30_NoQuantisationFeedback == []RecordedIsTruncation /\ [][WorkingFieldAdvected]_vars

\* a run in which frame k + 1 is not what a step makes of the recorded frame k
C30_Witness ==
    /\ IsForecast /\ pc = "returned"
    /\ calls.evolution_errors = 0
    /\ \E k \in 1 .. Len(result.forecasts) - 1 :
          heap[result.forecasts[k + 1].data] #
              AsUint8(apply_growth_decay_model(
                          advect_field(heap[result.forecasts[k].data], avg, StepSeconds(cfg)),
                          StepSeconds(cfg)))

----------------------------------------------------------------------------
(* The downloader: DMIDownloader (src/src/processors/radar_processor.py),   *)
(* called by process_cycle.  A file of the h5 folder is named after the     *)
(* instant of its feature; the folder outlives the cycles.                  *)

\* stop_after_attempt(3)
MaxAttempts == 3

\* int(file_datetime[14:16]) % 10 == 5: the minute field of the datetime
should_skip_file(file_datetime) == (file_datetime % 60) % 10 = 5

\* sanitize_filename(file_datetime.replace(":", "-") + ".h5"): one name for
\* each datetime
FileName(file_datetime) == file_datetime

\* data['features'] as the API returns it, by the datetime of each feature
MetadataLists == { <<>>, << 40, 50, 55, 60 >>, << 50, 55, 60, 70 >> }

\* the folder when the worker starts: empty, or with files of earlier runs
InitialFolders ==
    { NoFiles, [NoFiles EXCEPT ![40] = "complete", ![55] = "complete"] }

\* the configuration of the worker: one forecast step
DownloadConfig == [forecast_steps |-> 1, forecast_interval_minutes |-> 10]

\* the locals of download_hdf5_files once the metadata is fetched
NewDownload(features) ==
    [pc |-> "files", features |-> features, i |-> 1, attempt |-> 1,
     fetched_files |-> {}, downloaded_paths |-> <<>>, before |-> folder,
     stuck |-> {}]

\* fetched_files.add(...) after the test of os.path.exists, for new files only
FetchedFiles_new(fetched, name, existed) ==
    IF existed THEN fetched ELSE fetched \cup { name }

\* fetched_files.add(sanitized_file_name), before the test of os.path.exists
FetchedFiles(fetched, name, existed) == fetched \cup { name }

\* download_hdf5_files raised: no handler of its own, process_cycle takes the
\* exception at lines 110-113
DownloadFailed(w, kind) ==
    [CycleHandler(w, kind) EXCEPT !.now.download_failed = TRUE]

DownloadInit ==
    /\ entry = "generate_forecast"
    /\ cfg = DownloadConfig
    /\ args = NoArgs
    /\ ForecasterIdle
    /\ other = NoCall
    /\ worker = NewWorker
    /\ folder \in InitialFolders
    /\ download = NoDownload

\* download_hdf5_files is called: fetch_radar_metadata, with its retries, and
\* data['features']
DownloadFetch ==
    /\ worker.pc = "download"
    /\ download.pc # "files"
    /\ \/ \E kind \in { "RetryError", "KeyError" } :
            /\ worker' = DownloadFailed(worker, kind)
            /\ download' = [NewDownload(<<>>) EXCEPT !.pc = "failed"]
       \/ \E features \in MetadataLists :
            /\ download' = NewDownload(features)
            /\ UNCHANGED worker
    /\ UNCHANGED folder
    /\ UNCHANGED Forecaster

\* one feature that needs no download: skipped by its minute, or its file exists
DownloadFeature ==
    /\ worker.pc = "download"
    /\ download.pc = "files"
    /\ download.i <= Len(download.features)
    /\ download.attempt = 1
    /\ LET file_datetime == download.features[download.i]
           name == FileName(file_datetime)
       IN  IF should_skip_file(file_datetime)
           THEN download' = [download EXCEPT !.i = @ + 1]
           ELSE /\ folder[name] # "absent"
                /\ download' = [download EXCEPT
                       !.fetched_files = FetchedFiles(@, name, TRUE),
                       !.downloaded_paths = Append(@, name),
                       !.i = @ + 1]
    /\ UNCHANGED << worker, folder >>
    /\ UNCHANGED Forecaster

\* one attempt of download_file for a feature whose file does not exist: the
\* request is refused (nothing is written), the stream breaks (the file is
\* left as far as it was written), or the file is written completely; after
\* the third failure tenacity raises RetryError
DownloadAttempt ==
    /\ worker.pc = "download"
    /\ download.pc = "files"
    /\ download.i <= Len(download.features)
    /\ ~should_skip_file(download.features[download.i])
    /\ LET name == FileName(download.features[download.i])
           fetched == FetchedFiles(download.fetched_files, name, FALSE)
       IN  /\ folder[name] = "absent" \/ download.attempt > 1
           /\ \E outcome \in { "refused", "broken", "ok" } :
                IF outcome = "ok"
                THEN /\ folder' = [folder EXCEPT ![name] = "complete"]
                     /\ download' = [download EXCEPT
                            !.fetched_files = fetched,
                            !.downloaded_paths = Append(@, name),
                            !.i = @ + 1,
                            !.attempt = 1]
                     /\ UNCHANGED worker
                ELSE /\ folder' = IF outcome = "broken"
                                  THEN [folder EXCEPT ![name] = "partial"] ELSE folder
                     /\ IF download.attempt < MaxAttempts
                        THEN /\ download' = [download EXCEPT
                                    !.fetched_files = fetched, !.attempt = @ + 1]
                             /\ UNCHANGED worker
                        ELSE /\ download' = [download EXCEPT
                                    !.fetched_files = fetched, !.pc = "failed"]
                             /\ worker' = DownloadFailed(worker, "RetryError")
    /\ UNCHANGED Forecaster

\* after the loop: _cleanup_old_files (a file whose os.remove raises stays and
\* is logged), and the return of downloaded_paths to process_cycle
DownloadCleanup ==
    /\ worker.pc = "download"
    /\ download.pc = "files"
    /\ download.i > Len(download.features)
    /\ LET existing_files == { name \in Stamps : folder[name] # "absent" }
           files_to_delete == existing_files \ download.fetched_files
       IN  \E stuck \in SUBSET files_to_delete :
            /\ folder' = [name \in Stamps |->
                            IF name \in files_to_delete \ stuck
                            THEN "absent" ELSE folder[name]]
            /\ download' = [download EXCEPT !.pc = "returned", !.stuck = stuck]
    /\ worker' = IF download.downloaded_paths = <<>>
                 THEN [Logged(worker, "No HDF5 files downloaded") EXCEPT !.pc = "waiting"]
                 ELSE [worker EXCEPT !.pc = "process",
                                     !.now.hdf5_files = Len(download.downloaded_paths)]
    /\ UNCHANGED Forecaster

DownloadNext ==
    \/ WorkerLoop
    \/ DownloadFetch
    \/ DownloadFeature
    \/ DownloadAttempt
    \/ DownloadCleanup
    \/ WorkerProcess
    \/ WorkerLoad
    \/ EnterForecast
    \/ EstimatePair
    \/ FinishAggregate
    \/ ForecastStep
    \/ ReturnForecasts
    \/ WorkerRender
    \/ WorkerForecastFailed
    \/ WorkerUpload
    \/ WorkerSleep
    \/ WorkerInterrupt

\* process_cycle has returned: the sleep of run ends and the loop goes round
DownloadSpec ==
    /\ DownloadInit
    /\ [][DownloadNext]_vars
    /\ WF_vars(WorkerSleep)

\* download_hdf5_files has returned its list to process_cycle
Downloaded == download.pc = "returned"

\* C27 as stated: a path returned by download_hdf5_files is the path of a file
\* that a successful download_file call wrote completely; a file a failed
\* download left partly written is never returned as already downloaded.
C27_AsStated ==
    Downloaded =>
        \A k \in DOMAIN download.downloaded_paths :
            folder[download.downloaded_paths[k]] = "complete"

\* the files the current metadata names and the minute rule does not skip
CurrentSet ==
    { FileName(download.features[k]) :
        k \in { j \in DOMAIN download.features : download.features[j] % 10 # 5 } }

\* C28: after download_hdf5_files returned, every deletion having succeeded, the
\* folder holds exactly the files the current metadata names and the minute
\* rule does not skip: every other file that was there is deleted, no file of
\* the current set is deleted, and every returned path is of the current set.
C28_FolderIsCurrentSet ==
    (Downloaded /\ download.stuck = {}) =>
        /\ { name \in Stamps : folder[name] # "absent" } = CurrentSet
        /\ \A name \in Stamps \ CurrentSet : folder[name] = "absent"
        /\ \A name \in CurrentSet :
              download.before[name] # "absent" => folder[name] = download.before[name]
        /\ \A k \in DOMAIN download.downloaded_paths :
              download.downloaded_paths[k] \in CurrentSet

C28_Witness ==
    /\ Downloaded /\ download.stuck = {}
    /\ download.features = << 50, 55, 60, 70 >>
    /\ download.before[40] = "complete" /\ download.before[55] = "complete"
    /\ download.before[50] = "complete" /\ download.before[70] = "absent"
    /\ folder[40] = "absent" /\ folder[55] = "absent"
    /\ folder[50] = "complete" /\ folder[70] = "complete"

\* in a cycle whose download failed nothing else of the cycle has run, and no
\* file that was in the folder is gone or changed
NothingAfterFailedDownload ==
    (worker.pc # "none" /\ worker.now.download_failed) =>
        /\ worker.pc \in { "waiting", "loop", "stopped" }
        /\ ~worker.now.processed
        /\ worker.now.radar_frames = 0
        /\ worker.now.forecast_png_files = 0
        /\ ~worker.now.forecast_failed
        /\ worker.now.uploads = {}
        /\ pc = "idle" /\ NoCalls
        /\ \A name \in Stamps :
              download.before[name] # "absent" => folder[name] = download.before[name]

\* C29: in a cycle whose download step fails (the metadata fetch, or one file
\* after its retries) no later step runs: no PNG conversion, no forecast, no
\* upload, no HDF5 file deleted; process_cycle returns and the loop goes on.
C29_FailedDownloadEndsCycle ==
    /\ []NothingAfterFailedDownload
    /\ (worker.pc = "waiting" /\ worker.now.download_failed)
          ~> (worker.pc \in { "loop", "stopped" })

C29_Witness ==
    /\ worker.pc = "loop"
    /\ worker.cycle = 2
    /\ worker.now.download_failed
    /\ download.pc = "failed"
    /\ download.downloaded_paths = << 50 >>
    /\ download.before[40] = "complete" /\ folder[40] = "complete"
    /\ folder[60] = "partial"

====
